---- MODULE Spec2Model ----
(***************************************************************************)
(* Model of openshift-go-monolith/main.go: the two process-wide atomic     *)
(* counters, the four HTTP handlers (info, write, stats, health), the      *)
(* logging middleware that wraps them, and the log directory the write     *)
(* handler writes into.  Every request is served by its own goroutine, so  *)
(* each handler is split at its accesses to shared state (the counters,    *)
(* the wall clock, the file system); the steps of different requests       *)
(* interleave freely.                                                      *)
(***************************************************************************)
EXTENDS Integers, Naturals, Sequences, FiniteSets, TLC

\* ---------------------------------------------------------------- bounds
\* Number of requests, each on its own connection and goroutine.
NumProcs == 2
\* Last second of the wall clock.
MaxClock == 1
\* Longest User-Agent header, in bytes.
MaxUA == 1

\* ------------------------------------------------------------- constants
StatusOK == 200
StatusInternalServerError == 500

Procs == 1..NumProcs
Kinds == {"info", "write", "stats", "health"}

VARIABLES
  requestCount,  \* var requestCount int64
  writeCount,    \* var writeCount int64
  clock,         \* time.Now(), in seconds
  dirExists,     \* ./data/log exists
  files,         \* ./data/log: filename -> content (a sequence of bytes)
  pc,            \* position of each request's goroutine
  kind,          \* route of the request
  filename,      \* writeHandler: filename
  args,          \* values loaded so far for the fmt.Sprintf / Stats literal
  logContent,    \* writeHandler: logContent
  resp,          \* what the ResponseWriter has sent
  trace,         \* middleware: lines logged and calls made for the request
  incResult,     \* value line 77's AddInt64 returned (the code drops it)
  adds,          \* history: increments the request made, <<request, write>>
  failedAt,      \* history: the call of writeHandler that returned an error
  seen,          \* history: counter pairs that existed during a stats request
  startClock,    \* history: clock when the request arrived
  lastWriter     \* history: per file, the request whose WriteString came last

vars == <<requestCount, writeCount, clock, dirExists, files, pc, kind,
          filename, args, logContent, resp, trace, incResult, adds, failedAt, seen,
          startClock, lastWriter>>

\* ------------------------------------------------------------ primitives
\* A read-modify-write that is not atomic: the second of two overlapping
\* increments is lost.
AddInt64Lost(c, delta) == IF c = 1 THEN c ELSE c + delta

\* atomic.AddInt64(&c, delta): one indivisible step; returns the new value.
\* The counters stay far below 2^63 here, where the int64 sum cannot wrap.
AddInt64(c, delta) == c + delta

\* atomic.LoadInt64(&c)
LoadInt64(c) == c

\* The name taken from startTime (line 18) instead of time.Now().
LogNameOfStart(t) == <<0, "-log.txt">>

\* time.Now().Format("20060102-150405") and the "%s-log.txt" of line 94: one
\* name per second.
LogName(t) == <<t, "-log.txt">>

\* The report of lines 112-169, as the bytes that depend on the request and
\* on the counters: operation number (154), total requests (160), operation
\* number again (162), remote address and user agent.
Render(a, addr, ualen) ==
  << <<"op", a[1]>>, <<"total", a[2]>>, <<"opref", a[3]>>, <<"addr", addr>> >>
    \o [i \in 1..ualen |-> <<"ua", i>>]

\* os.OpenFile(path, O_CREATE|O_WRONLY|O_TRUNC): the file exists and is empty.
OpenTrunc(fs, f) == [g \in DOMAIN fs \cup {f} |-> IF g = f THEN <<>> ELSE fs[g]]

\* f.WriteString(data) on a descriptor opened without O_APPEND and never
\* written before: the bytes land at offset 0 over whatever the file holds.
WriteAt0(old, data) ==
  [i \in 1..(IF Len(old) > Len(data) THEN Len(old) ELSE Len(data)) |->
      IF i <= Len(data) THEN data[i] ELSE old[i]]

Prefix(s, n) == [i \in 1..n |-> s[i]]

NoName == <<-1, "">>

NoResp == [status |-> 0, body |-> "", file |-> NoName, op |-> -1, size |-> -1,
           total |-> -1, writes |-> -1]

\* http.Error(w, msg, 500) before anything was written to w.
HttpError(msg) == [NoResp EXCEPT !.status = StatusInternalServerError, !.body = msg]

\* w.Write(body) with no WriteHeader before it: status 200.
Plain(body) == [NoResp EXCEPT !.status = StatusOK, !.body = body]

\* The stats requests between their arrival and their response.
InStats(q) == kind[q] = "stats" /\ pc[q] \notin {"idle", "mw_end", "done"}

\* The counter pairs each running stats request has lived through.
Observe(rc, wc) ==
  [q \in Procs |-> IF InStats(q) THEN seen[q] \cup {<<rc, wc>>} ELSE seen[q]]

Init ==
  /\ requestCount = 0
  /\ writeCount = 0
  /\ clock = 0
  /\ dirExists \in BOOLEAN
  /\ files = << >>
  /\ pc = [p \in Procs |-> "idle"]
  /\ kind = [p \in Procs |-> "none"]
  /\ filename = [p \in Procs |-> NoName]
  /\ args = [p \in Procs |-> << >>]
  /\ logContent = [p \in Procs |-> << >>]
  /\ resp = [p \in Procs |-> NoResp]
  /\ trace = [p \in Procs |-> << >>]
  /\ incResult = [p \in Procs |-> 0]
  /\ adds = [p \in Procs |-> <<0, 0>>]
  /\ failedAt = [p \in Procs |-> ""]
  /\ seen = [p \in Procs |-> {}]
  /\ startClock = [p \in Procs |-> 0]
  /\ lastWriter = << >>

counters == <<requestCount, writeCount>>
fsVars == <<dirExists, files, lastWriter>>
reqVars == <<kind, startClock>>
hist == <<adds, failedAt>>
writeLocals == <<filename, args, logContent, incResult>>

Goto(p, to) ==
  /\ pc' = [pc EXCEPT ![p] = to]
  /\ UNCHANGED trace

\* ------------------------------------------------------------ middleware
\* The handler each route is registered with (lines 313-316).
Entry(k) ==
  CASE k = "info" -> "i_inc"
    [] k = "write" -> "w_incReq"
    [] k = "stats" -> "s_inc"
    [] k = "health" -> "h_inc"

\* The inner handler called before the start line is logged.
BeforeCallFirst(t) == t \o <<"CALL", "REQUEST">>

\* Lines 250-254: the start line, then the call of the inner handler.
Before(t) == t \o <<"REQUEST", "CALL">>

\* A request arrives; the middleware logs its start line and calls the
\* route's handler (lines 249-254).
Arrive(p) ==
  /\ pc[p] = "idle"
  /\ \E k \in Kinds :
       /\ kind' = [kind EXCEPT ![p] = k]
       /\ pc' = [pc EXCEPT ![p] = Entry(k)]
       /\ seen' = [seen EXCEPT ![p] =
                     IF k = "stats" THEN {<<requestCount, writeCount>>} ELSE {}]
  /\ trace' = [trace EXCEPT ![p] = Before(@)]
  /\ startClock' = [startClock EXCEPT ![p] = clock]
  /\ UNCHANGED <<counters, clock, fsVars, writeLocals, resp, hist>>

\* The handler returns to line 254, having sent response r.
Return(p, r) ==
  /\ resp' = [resp EXCEPT ![p] = r]
  /\ pc' = [pc EXCEPT ![p] = "mw_end"]
  /\ trace' = [trace EXCEPT ![p] = Append(@, "RETURN")]

\* Lines 256-257: the completion line; the request is over.
Complete(p) ==
  /\ pc[p] = "mw_end"
  /\ pc' = [pc EXCEPT ![p] = "done"]
  /\ trace' = [trace EXCEPT ![p] = Append(@, "RESPONSE")]
  /\ UNCHANGED <<counters, clock, fsVars, reqVars, writeLocals, resp, hist, seen>>

\* atomic.AddInt64(&requestCount, 1), the first statement of every handler.
CountRequest(p, to) ==
  /\ requestCount' = AddInt64(requestCount, 1)
  /\ adds' = [adds EXCEPT ![p][1] = @ + 1]
  /\ seen' = Observe(requestCount', writeCount)
  /\ Goto(p, to)
  /\ UNCHANGED <<writeCount, clock, fsVars, reqVars, writeLocals, resp, failedAt>>

\* ------------------------------------------------------------------ info
infoCount(p) ==
  /\ pc[p] = "i_inc"
  /\ CountRequest(p, "i_encode")

\* Lines 47-72: build AppInfo and encode it; Encode fails when the write to
\* the connection fails, with the implicit 200 header already out or not.
infoEncode(p) ==
  /\ pc[p] = "i_encode"
  /\ \/ Return(p, Plain("info"))
     \/ \E st \in {StatusOK, StatusInternalServerError} :
          Return(p, [NoResp EXCEPT !.status = st, !.body = "Internal server error"])
  /\ UNCHANGED <<counters, clock, fsVars, reqVars, writeLocals, hist, seen>>

\* ---------------------------------------------------------------- health
\* healthHandler counting itself as a write as well.
healthCountBoth(p) ==
  /\ pc[p] = "h_inc"
  /\ requestCount' = AddInt64(requestCount, 1)
  /\ writeCount' = AddInt64(writeCount, 1)
  /\ adds' = [adds EXCEPT ![p][1] = @ + 1]
  /\ seen' = Observe(requestCount', writeCount')
  /\ Goto(p, "h_write")
  /\ UNCHANGED <<clock, fsVars, reqVars, writeLocals, resp, failedAt>>

\* Line 202.
healthCount(p) ==
  /\ pc[p] = "h_inc"
  /\ CountRequest(p, "h_write")

\* w.Write([]byte("OK")), line 204; its result is ignored.
healthWrite(p) ==
  /\ pc[p] = "h_write"
  /\ Return(p, Plain("OK"))
  /\ UNCHANGED <<counters, clock, fsVars, reqVars, writeLocals, hist, seen>>

\* ----------------------------------------------------------------- stats
statsCount(p) ==
  /\ pc[p] = "s_inc"
  /\ CountRequest(p, "s_loadTotal")

\* TotalRequests: atomic.LoadInt64(&requestCount), line 214.
statsLoadTotal(p) ==
  /\ pc[p] = "s_loadTotal"
  /\ args' = [args EXCEPT ![p] = <<LoadInt64(requestCount)>>]
  /\ Goto(p, "s_loadWrites")
  /\ UNCHANGED <<counters, clock, fsVars, reqVars, filename, logContent, incResult,
                 resp, hist, seen>>

\* WriteOps: atomic.LoadInt64(&writeCount), line 215.
statsLoadWrites(p) ==
  /\ pc[p] = "s_loadWrites"
  /\ args' = [args EXCEPT ![p] = Append(@, LoadInt64(writeCount))]
  /\ Goto(p, "s_encode")
  /\ UNCHANGED <<counters, clock, fsVars, reqVars, filename, logContent, incResult,
                 resp, hist, seen>>

\* The two counters in each other's field.
StatsBodySwapped(a) == [Plain("stats") EXCEPT !.total = a[2], !.writes = a[1]]

\* The Stats record as the response carries it.
StatsBody(a) == [Plain("stats") EXCEPT !.total = a[1], !.writes = a[2]]

\* Lines 225-232.
statsEncode(p) ==
  /\ pc[p] = "s_encode"
  /\ \/ Return(p, StatsBody(args[p]))
     \/ \E st \in {StatusOK, StatusInternalServerError} :
          Return(p, [NoResp EXCEPT !.status = st, !.body = "Internal server error"])
  /\ args' = [args EXCEPT ![p] = << >>]
  /\ UNCHANGED <<counters, clock, fsVars, reqVars, filename, logContent, incResult, hist, seen>>

\* ----------------------------------------------------------------- write
\* writeHandler without its line 76: the request is not counted.
writeCountRequestMissing(p) ==
  /\ pc[p] = "w_incReq"
  /\ Goto(p, "w_incWrite")
  /\ UNCHANGED <<counters, clock, fsVars, reqVars, writeLocals, resp, hist, seen>>

\* Line 76.
writeCountRequest(p) ==
  /\ pc[p] = "w_incReq"
  /\ CountRequest(p, "w_incWrite")

\* writeCount counted only once the file is written: nothing happens here.
writeCountWriteDeferred(p) ==
  /\ pc[p] = "w_incWrite"
  /\ Goto(p, "w_mkdir")
  /\ UNCHANGED <<counters, clock, fsVars, reqVars, writeLocals, resp, hist, seen>>

\* atomic.AddInt64(&writeCount, 1), line 77; the returned value is dropped.
writeCountWrite(p) ==
  /\ pc[p] = "w_incWrite"
  /\ writeCount' = AddInt64(writeCount, 1)
  /\ incResult' = [incResult EXCEPT ![p] = writeCount']
  /\ adds' = [adds EXCEPT ![p][2] = @ + 1]
  /\ seen' = Observe(requestCount, writeCount')
  /\ Goto(p, "w_mkdir")
  /\ UNCHANGED <<requestCount, clock, fsVars, reqVars, filename, args, logContent,
                 resp, failedAt>>

\* A failed MkdirAll that takes the request's write back out of writeCount.
writeMkdirAllRollback(p) ==
  /\ pc[p] = "w_mkdir"
  /\ \/ /\ Return(p, HttpError("Failed to create log directory"))
        /\ failedAt' = [failedAt EXCEPT ![p] = "mkdir"]
        /\ writeCount' = writeCount - 1
        /\ UNCHANGED dirExists
     \/ /\ dirExists' = TRUE
        /\ Goto(p, "w_now")
        /\ UNCHANGED <<resp, failedAt, writeCount>>
  /\ UNCHANGED <<requestCount, clock, files, lastWriter, reqVars, writeLocals, adds, seen>>

\* os.MkdirAll(logDir, 0755), lines 85-89.
writeMkdirAll(p) ==
  /\ pc[p] = "w_mkdir"
  /\ \/ /\ Return(p, HttpError("Failed to create log directory"))
        /\ failedAt' = [failedAt EXCEPT ![p] = "mkdir"]
        /\ UNCHANGED dirExists
     \/ /\ dirExists' = TRUE
        /\ Goto(p, "w_now")
        /\ UNCHANGED <<resp, failedAt>>
  /\ UNCHANGED <<counters, clock, files, lastWriter, reqVars, writeLocals, adds, seen>>

\* Lines 93-95: the filename is the current second.
writeFilename(p) ==
  /\ pc[p] = "w_now"
  /\ filename' = [filename EXCEPT ![p] = LogName(clock)]
  /\ Goto(p, "w_open")
  /\ UNCHANGED <<counters, clock, fsVars, reqVars, args, logContent, incResult,
                 resp, hist, seen>>

\* os.OpenFile(..., O_CREATE|O_WRONLY|O_TRUNC, 0644), lines 99-104.
writeOpenFile(p) ==
  /\ pc[p] = "w_open"
  /\ \/ /\ Return(p, HttpError("Failed to create log file"))
        /\ failedAt' = [failedAt EXCEPT ![p] = "open"]
        /\ UNCHANGED files
     \/ /\ dirExists
        /\ files' = OpenTrunc(files, filename[p])
        /\ Goto(p, "w_loadOp")
        /\ UNCHANGED <<resp, failedAt>>
  /\ UNCHANGED <<counters, clock, dirExists, lastWriter, reqVars, writeLocals, adds, seen>>

\* atomic.LoadInt64(&writeCount), line 154.
writeLoadOp(p) ==
  /\ pc[p] = "w_loadOp"
  /\ args' = [args EXCEPT ![p] = <<LoadInt64(writeCount)>>]
  /\ Goto(p, "w_loadTotal")
  /\ UNCHANGED <<counters, clock, fsVars, reqVars, filename, logContent, incResult,
                 resp, hist, seen>>

\* atomic.LoadInt64(&requestCount), line 160.
writeLoadTotal(p) ==
  /\ pc[p] = "w_loadTotal"
  /\ args' = [args EXCEPT ![p] = Append(@, LoadInt64(requestCount))]
  /\ Goto(p, "w_loadOpRef")
  /\ UNCHANGED <<counters, clock, fsVars, reqVars, filename, logContent, incResult,
                 resp, hist, seen>>

\* atomic.LoadInt64(&writeCount), line 162, and the Sprintf of lines 112-169;
\* r.UserAgent() (line 167) is an input of the request, of any length.
writeRender(p) ==
  /\ pc[p] = "w_loadOpRef"
  /\ \E n \in 0..MaxUA :
       logContent' = [logContent EXCEPT ![p] =
                        Render(Append(args[p], LoadInt64(writeCount)), p, n)]
  /\ args' = [args EXCEPT ![p] = << >>]
  /\ Goto(p, "w_write")
  /\ UNCHANGED <<counters, clock, fsVars, reqVars, filename, incResult, resp, hist, seen>>

\* f.WriteString(logContent), lines 173-177; a failed write may have put a
\* proper prefix of the content into the file.
writeString(p) ==
  /\ pc[p] = "w_write"
  /\ \/ /\ \E n \in 0..(Len(logContent[p]) - 1) :
             files' = [files EXCEPT ![filename[p]] =
                         WriteAt0(@, Prefix(logContent[p], n))]
        /\ Return(p, HttpError("Failed to write log content"))
        /\ failedAt' = [failedAt EXCEPT ![p] = "write"]
        /\ UNCHANGED lastWriter
     \/ /\ files' = [files EXCEPT ![filename[p]] = WriteAt0(@, logContent[p])]
        /\ lastWriter' = [g \in DOMAIN lastWriter \cup {filename[p]} |->
                            IF g = filename[p] THEN p ELSE lastWriter[g]]
        /\ Goto(p, "w_respond")
        /\ UNCHANGED <<resp, failedAt>>
  /\ UNCHANGED <<counters, clock, dirExists, reqVars, writeLocals, adds, seen>>

\* The confirmation of lines 181-195.
Confirmation(f, op, size) ==
  [Plain("written") EXCEPT !.file = f, !.op = op, !.size = size]

\* Lines 181-198, then the deferred f.Close().
writeRespond(p) ==
  /\ pc[p] = "w_respond"
  /\ Return(p, Confirmation(filename[p], LoadInt64(writeCount), Len(logContent[p])))
  /\ UNCHANGED <<counters, clock, fsVars, reqVars, writeLocals, hist, seen>>

\* ----------------------------------------------------------------- clock
Tick ==
  /\ clock < MaxClock
  /\ clock' = clock + 1
  /\ UNCHANGED <<counters, fsVars, pc, reqVars, writeLocals, resp, trace, hist, seen>>

Next ==
  \/ Tick
  \/ \E p \in Procs :
       \/ Arrive(p) \/ Complete(p)
       \/ infoCount(p) \/ infoEncode(p)
       \/ healthCount(p) \/ healthWrite(p)
       \/ statsCount(p) \/ statsLoadTotal(p) \/ statsLoadWrites(p) \/ statsEncode(p)
       \/ writeCountRequest(p) \/ writeCountWrite(p) \/ writeMkdirAll(p)
       \/ writeFilename(p) \/ writeOpenFile(p) \/ writeLoadOp(p) \/ writeLoadTotal(p)
       \/ writeRender(p) \/ writeString(p) \/ writeRespond(p)

Spec == Init /\ [][Next]_vars


\* ================================================================ claims
HandlerReturned(p) == pc[p] \in {"mw_end", "done"}

\* The request has executed its atomic.AddInt64(&requestCount, 1).
Counted(p) == pc[p] \notin {"idle", "i_inc", "w_incReq", "s_inc", "h_inc"}

\* The write request has executed its atomic.AddInt64(&writeCount, 1).
WriteCounted(p) == kind[p] = "write" /\ pc[p] \notin {"w_incReq", "w_incWrite"}

\* The write request went through every call without an error.
Succeeded(p) == kind[p] = "write" /\ HandlerReturned(p) /\ failedAt[p] = ""

\* C1: in every state of every interleaving, requestCount is the number of
\* info, stats, health and write requests that have executed their increment
\* and writeCount the number of write requests that have; so once N
\* concurrent requests have all completed the counters are N and the number
\* of writes among them: no increment is lost or duplicated.
C1_CountersExact ==
  /\ requestCount = Cardinality({p \in Procs : Counted(p)})
  /\ writeCount = Cardinality({p \in Procs : WriteCounted(p)})
  /\ (\A p \in Procs : kind[p] = "write" /\ pc[p] = "done")
       => requestCount = NumProcs /\ writeCount = NumProcs

C1_Witness ==
  /\ \A p \in Procs : kind[p] = "write" /\ pc[p] = "done"
  /\ requestCount = NumProcs
  /\ writeCount = NumProcs

\* C2: a write request whose MkdirAll, OpenFile or WriteString failed has
\* returned with status 500 and not with the success confirmation, and it has
\* incremented requestCount and writeCount exactly once each.
C2_FailureIs500 ==
  \A p \in Procs :
    failedAt[p] # "" =>
      /\ HandlerReturned(p)
      /\ resp[p].status = 500
      /\ resp[p].body # "written"
      /\ adds[p] = <<1, 1>>
      /\ requestCount >= 1
      /\ writeCount >= 1

C2_Witness ==
  \E p, q \in Procs :
    /\ failedAt[p] = "open" /\ pc[p] = "done"
    /\ failedAt[q] = "write" /\ pc[q] = "done"

\* C3: when a write request sends its success confirmation, the file it
\* names exists and holds exactly the report this request rendered.
C3_ConfirmedFileIsOwnReport ==
  \A p \in Procs :
    pc[p] = "w_respond" =>
      /\ filename[p] \in DOMAIN files
      /\ files[filename[p]] = logContent[p]

\* C4: when two write requests computed the same filename and both completed
\* successfully, the file of that name holds the complete report of the later
\* one (the one whose write came last) and nothing else.
C4_LaterReportSurvives ==
  \A p, q \in Procs :
    (p # q /\ Succeeded(p) /\ Succeeded(q) /\ filename[p] = filename[q]) =>
      /\ filename[p] \in DOMAIN files
      /\ files[filename[p]] = logContent[lastWriter[filename[p]]]

\* The operation numbers a file's content shows (lines 117 and 130).
OpNumbers(content) ==
  {content[i][2] : i \in {j \in DOMAIN content : content[j][1] \in {"op", "opref"}}}

\* The only write request so far.
SingleWrite(p) ==
  kind[p] = "write" /\ \A q \in Procs \ {p} : kind[q] # "write"

\* C5: once the only write request of an execution has written its file, the
\* log directory holds exactly one file, named <second>-log.txt for a second
\* during which the request ran, and the operation number in the file is the
\* value of writeCount.
C5_SingleWriteOneFile ==
  \A p \in Procs :
    (SingleWrite(p) /\ failedAt[p] = "" /\ pc[p] \in {"w_respond", "mw_end", "done"}) =>
      /\ DOMAIN files = {filename[p]}
      /\ filename[p][1] \in startClock[p]..clock
      /\ filename[p][2] = "-log.txt"
      /\ files[filename[p]] = logContent[p]
      /\ OpNumbers(files[filename[p]]) = {writeCount}

C5_Witness ==
  \E p \in Procs :
    /\ SingleWrite(p) /\ failedAt[p] = "" /\ pc[p] = "done"
    /\ startClock[p] = 1
    /\ \A q \in Procs : pc[q] = "done"

C6_Answer ==
  \A p \in Procs :
    (kind[p] = "health" /\ HandlerReturned(p)) =>
      /\ resp[p].status = 200
      /\ resp[p].body = "OK"
      /\ adds[p] = <<1, 0>>

C6_Step ==
  \A p \in Procs :
    (kind'[p] = "health" /\ pc'[p] # pc[p]) =>
      /\ requestCount' = requestCount + (IF pc[p] = "h_inc" THEN 1 ELSE 0)
      /\ writeCount' = writeCount
      /\ files' = files
      /\ dirExists' = dirExists

\* C6: a health request always returns status 200 with the body "OK",
\* whatever else has happened or is running; over its whole course it adds
\* exactly one to requestCount, and none of its steps changes writeCount or
\* the log directory.
C6_HealthAlwaysOK == []C6_Answer /\ [][C6_Step]_vars

C6_Witness ==
  \E p, q \in Procs :
    /\ kind[p] = "health" /\ pc[p] = "done"
    /\ failedAt[q] # "" /\ pc[q] = "done"

\* C7: both counters start at zero and no step of any request, failed
\* requests included, makes either of them smaller.
C7_Monotonic ==
  /\ requestCount = 0 /\ writeCount = 0
  /\ [][requestCount' >= requestCount /\ writeCount' >= writeCount]_vars

C7_Witness ==
  /\ requestCount = NumProcs
  /\ writeCount >= 1
  /\ \E p \in Procs : failedAt[p] = "mkdir"

Answered(p) == kind[p] = "stats" /\ HandlerReturned(p) /\ resp[p].body = "stats"

\* C8: each counter value a stats response reports is a value that counter
\* held at some moment of that stats request (the pair need not be one the
\* counters ever held together: C8_Witness).
C8_EachValueWasHeld ==
  \A p \in Procs :
    Answered(p) =>
      /\ resp[p].total \in {s[1] : s \in seen[p]}
      /\ resp[p].writes \in {s[2] : s \in seen[p]}

C8_Witness ==
  \E p \in Procs :
    /\ Answered(p)
    /\ <<resp[p].total, resp[p].writes>> \notin seen[p]

C9_Order ==
  \A p \in Procs :
    trace[p] =
      CASE pc[p] = "idle" -> << >>
        [] pc[p] = "mw_end" -> <<"REQUEST", "CALL", "RETURN">>
        [] pc[p] = "done" -> <<"REQUEST", "CALL", "RETURN", "RESPONSE">>
        [] OTHER -> <<"REQUEST", "CALL">>

C9_Step ==
  \A p \in Procs :
    (pc[p] \in {"idle", "mw_end"} /\ pc'[p] # pc[p]) =>
      /\ resp' = resp
      /\ requestCount' = requestCount
      /\ writeCount' = writeCount

\* C9: for every request the middleware logs the start line, then calls the
\* inner handler once, and logs the completion line only after the handler
\* has returned, with a 200 as with a 500; its own steps change neither the
\* response nor the counters.
C9_MiddlewareObserves == []C9_Order /\ [][C9_Step]_vars

C9_Witness ==
  \E p, q \in Procs :
    /\ pc[p] = "done" /\ resp[p].status = 200
    /\ pc[q] = "done" /\ resp[q].status = 500

\* C10: the operation number in a successful write request's file and the
\* one in its confirmation are the value its own increment gave writeCount,
\* so no two write requests report the same operation number.
C10_OwnOperationNumber ==
  /\ \A p \in Procs :
       Succeeded(p) =>
         /\ OpNumbers(logContent[p]) = {incResult[p]}
         /\ resp[p].op = incResult[p]
  /\ \A p, q \in Procs :
       (p # q /\ Succeeded(p) /\ Succeeded(q)) => resp[p].op # resp[q].op

\* C11: in every reachable state of every interleaving writeCount is at most
\* requestCount: writeHandler adds to requestCount before it adds to
\* writeCount, and no other handler adds to writeCount.
C11_WritesAtMostRequests == writeCount <= requestCount

\* One write request is between its two increments while another has made
\* both, and a request of another route has been counted or is about to be.
C11_Witness ==
  \E p, q \in Procs :
    /\ p # q
    /\ kind[p] = "write" /\ pc[p] = "w_incWrite"
    /\ kind[q] = "write" /\ WriteCounted(q)
    /\ writeCount = 1
    /\ requestCount = 2

====
